---- MODULE Spec2Model ----
\* The order/position state machine of the two AutoTrader variants
\* (autotrader_ac_3.py = variant 1, autotrader_ac_4.py = variant 2).
\* Every callback of the class is a pure operator over the object's fields;
\* the actions deliver one inbound event each and run the callback to its end.
EXTENDS Integers, Sequences, FiniteSets, TLC

\* ------------------------------------------------------------------ bounds
MaxHist == 2           \* book updates delivered per instrument
MaxOrderId == 4        \* ids drawn from order_ids (inserts and hedges)
MaxPartialStatus == 1  \* OrderStatus deliveries with remaining_volume > 0
MaxLongHist == 3

\* ------------------------------------------------------- program constants
LOT_SIZE == 10
POSITION_LIMIT == 100
TICK_SIZE_IN_CENTS == 100
\* imported from the ready_trader_go package
MINIMUM_BID == 1
MAXIMUM_ASK == 2147483647
MIN_BID_NEAREST_TICK == ((MINIMUM_BID + TICK_SIZE_IN_CENTS) \div TICK_SIZE_IN_CENTS) * TICK_SIZE_IN_CENTS
MAX_ASK_NEAREST_TICK == (MAXIMUM_ASK \div TICK_SIZE_IN_CENTS) * TICK_SIZE_IN_CENTS

Instrument_FUTURE == "FUTURE"
Instrument_ETF == "ETF"
Side_ASK == "ASK"   \* a Sell
Side_BID == "BID"   \* a Buy

\* ------------------------------------------------------------ input domains
\* <<best bid, best ask>> of a book snapshot; <<0, 0>> is an empty book.
FutureQuotes == { <<0, 0>>, <<9900, 10100>> }
\* ETF midpoints 10000 (balanced), 10100 (gap 100), 10950 (gap 950), 9000 (gap -1000)
ETFQuotes == { <<9900, 10100>>, <<10000, 10200>>, <<10900, 11000>>, <<8900, 9100>> }
FillVolumes == { 5, 90 }

VARIABLES trader,    \* the AutoTrader object, plus the commands its running callback sent
          orders,    \* the exchange's view of every inserted order, by id
          npartial,  \* OrderStatus deliveries with remaining_volume > 0 so far
          ev,        \* the inbound event handled last
          twin,      \* a variant 2 object fed the same events as trader (SpecPair only)
          first      \* the instrument whose book update each tick delivers first
                     \* (SpecTicks only; "-" where the order is free)

vars == <<trader, orders, npartial, ev, twin, first>>

Abs(x) == IF x < 0 THEN -x ELSE x
Min(a, b) == IF a <= b THEN a ELSE b
Max(a, b) == IF a >= b THEN a ELSE b
Last(s) == s[Len(s)]

\* ------------------------------------------------------------- the object
\* The fields __init__ sets (ask_price and bid_price are never read again and
\* are left out; position_orders exists in variant 2 only and stays 0 in
\* variant 1), and three that stand for what is around the object:
\*   variant  which of the two files the object is built from,
\*   sent     the commands the running callback has passed to send_*,
\*   raised   a callback ended in an exception.
AutoTrader(variant) ==
    [ variant |-> variant,
      order_ids |-> 1,
      bids |-> {}, asks |-> {},
      ask_id |-> 0, bid_id |-> 0, position |-> 0,
      bid_price_history_of_etf |-> <<>>,
      ask_price_history_of_etf |-> <<>>,
      bid_price_history_of_future |-> <<>>,
      ask_price_history_of_future |-> <<>>,
      position_orders |-> 0,
      raised |-> FALSE,
      sent |-> <<>> ]

send_cancel_order(self, client_order_id) ==
    [self EXCEPT !.sent = Append(@, [cmd |-> "CancelOrder", id |-> client_order_id,
                                     side |-> "-", price |-> 0, volume |-> 0])]

send_hedge_order(self, client_order_id, side, price, volume) ==
    [self EXCEPT !.sent = Append(@, [cmd |-> "HedgeOrder", id |-> client_order_id,
                                     side |-> side, price |-> price, volume |-> volume])]

send_insert_order(self, client_order_id, side, price, volume) ==
    [self EXCEPT !.sent = Append(@, [cmd |-> "InsertOrder", id |-> client_order_id,
                                     side |-> side, price |-> price, volume |-> volume])]

\* ---------------------------------------------------------------- callbacks
\* on_order_filled_message with the hedge of the ask branch left out
on_order_filled_message_unhedged_ask(self, client_order_id, volume) ==
    IF client_order_id \in self.bids
    THEN send_hedge_order(
             [self EXCEPT !.position = @ + volume,
                          !.position_orders = IF self.variant = 2 THEN @ - volume ELSE @,
                          !.order_ids = @ + 1],
             self.order_ids, Side_ASK, MIN_BID_NEAREST_TICK, volume)
    ELSE IF client_order_id \in self.asks
    THEN [self EXCEPT !.position = @ - volume,
                      !.position_orders = IF self.variant = 2 THEN @ + volume ELSE @]
    ELSE self

\* on_order_filled_message that recognizes an order by its slot instead of
\* its side-set
on_order_filled_message_by_slot(self, client_order_id, volume) ==
    IF client_order_id = self.bid_id
    THEN send_hedge_order(
             [self EXCEPT !.position = @ + volume,
                          !.position_orders = IF self.variant = 2 THEN @ - volume ELSE @,
                          !.order_ids = @ + 1],
             self.order_ids, Side_ASK, MIN_BID_NEAREST_TICK, volume)
    ELSE IF client_order_id = self.ask_id
    THEN send_hedge_order(
             [self EXCEPT !.position = @ - volume,
                          !.position_orders = IF self.variant = 2 THEN @ + volume ELSE @,
                          !.order_ids = @ + 1],
             self.order_ids, Side_BID, MAX_ASK_NEAREST_TICK, volume)
    ELSE self

on_order_filled_message(self, client_order_id, volume) ==
    IF client_order_id \in self.bids
    THEN send_hedge_order(
             [self EXCEPT !.position = @ + volume,
                          !.position_orders = IF self.variant = 2 THEN @ - volume ELSE @,
                          !.order_ids = @ + 1],
             self.order_ids, Side_ASK, MIN_BID_NEAREST_TICK, volume)
    ELSE IF client_order_id \in self.asks
    THEN send_hedge_order(
             [self EXCEPT !.position = @ - volume,
                          !.position_orders = IF self.variant = 2 THEN @ + volume ELSE @,
                          !.order_ids = @ + 1],
             self.order_ids, Side_BID, MAX_ASK_NEAREST_TICK, volume)
    ELSE self

\* on_order_status_message without the two assignments that zero the slot
on_order_status_message_keeps_slot(self, client_order_id, fill_volume, remaining_volume) ==
    LET s1 == IF self.variant = 2
              THEN IF client_order_id = self.bid_id
                   THEN [self EXCEPT !.position_orders = @ - fill_volume]
                   ELSE IF client_order_id = self.ask_id
                   THEN [self EXCEPT !.position_orders = @ + fill_volume]
                   ELSE self
              ELSE self
    IN  IF remaining_volume = 0
        THEN [s1 EXCEPT !.bids = @ \ {client_order_id},
                        !.asks = @ \ {client_order_id}]
        ELSE s1

\* on_order_status_message without the test remaining_volume == 0
on_order_status_message_any_remaining(self, client_order_id, fill_volume, remaining_volume) ==
    LET s1 == IF self.variant = 2
              THEN IF client_order_id = self.bid_id
                   THEN [self EXCEPT !.position_orders = @ - fill_volume]
                   ELSE IF client_order_id = self.ask_id
                   THEN [self EXCEPT !.position_orders = @ + fill_volume]
                   ELSE self
              ELSE self
        s2 == IF client_order_id = s1.bid_id
              THEN [s1 EXCEPT !.bid_id = 0]
              ELSE IF client_order_id = s1.ask_id
              THEN [s1 EXCEPT !.ask_id = 0]
              ELSE s1
    IN  [s2 EXCEPT !.bids = @ \ {client_order_id},
                   !.asks = @ \ {client_order_id}]

\* on_order_status_message that zeroes both slots on a terminal status,
\* whatever the id
on_order_status_message_clears_both_slots(self, client_order_id, fill_volume, remaining_volume) ==
    LET s1 == IF self.variant = 2
              THEN IF client_order_id = self.bid_id
                   THEN [self EXCEPT !.position_orders = @ - fill_volume]
                   ELSE IF client_order_id = self.ask_id
                   THEN [self EXCEPT !.position_orders = @ + fill_volume]
                   ELSE self
              ELSE self
    IN  IF remaining_volume = 0
        THEN [s1 EXCEPT !.bid_id = 0,
                        !.ask_id = 0,
                        !.bids = @ \ {client_order_id},
                        !.asks = @ \ {client_order_id}]
        ELSE s1

on_order_status_message(self, client_order_id, fill_volume, remaining_volume) ==
    LET s1 == IF self.variant = 2
              THEN IF client_order_id = self.bid_id
                   THEN [self EXCEPT !.position_orders = @ - fill_volume]
                   ELSE IF client_order_id = self.ask_id
                   THEN [self EXCEPT !.position_orders = @ + fill_volume]
                   ELSE self
              ELSE self
    IN  IF remaining_volume = 0
        THEN LET s2 == IF client_order_id = s1.bid_id
                       THEN [s1 EXCEPT !.bid_id = 0]
                       ELSE IF client_order_id = s1.ask_id
                       THEN [s1 EXCEPT !.ask_id = 0]
                       ELSE s1
             IN  [s2 EXCEPT !.bids = @ \ {client_order_id},
                            !.asks = @ \ {client_order_id}]
        ELSE s1

\* on_error_message that only logs
on_error_message_logged_only(self, client_order_id) == self

on_error_message(self, client_order_id) ==
    IF client_order_id # 0
       /\ (client_order_id \in self.bids \/ client_order_id \in self.asks)
    THEN on_order_status_message(self, client_order_id, 0, 0)
    ELSE self

on_hedge_filled_message(self, client_order_id, price, volume) == self

on_trade_ticks_message(self, instrument) == self

\* ------------------------------------------------- on_order_book_update_message
record_snapshot(self, instrument, ask0, bid0) ==
    IF instrument = Instrument_ETF
    THEN [self EXCEPT !.bid_price_history_of_etf = Append(@, bid0),
                      !.ask_price_history_of_etf = Append(@, ask0)]
    ELSE IF instrument = Instrument_FUTURE
    THEN [self EXCEPT !.bid_price_history_of_future = Append(@, bid0),
                      !.ask_price_history_of_future = Append(@, ask0)]
    ELSE self

\* is_latest_info that also accepts an ETF history that is ahead of a
\* known future price
is_latest_info_or_etf_ahead(self) ==
    /\ Len(self.bid_price_history_of_future) > 0
    /\ Len(self.bid_price_history_of_etf) >= Len(self.bid_price_history_of_future)

is_latest_info(self) ==
    Len(self.bid_price_history_of_etf) = Len(self.bid_price_history_of_future)

midpoint_price_of_etf(self) ==
    (Last(self.bid_price_history_of_etf) + Last(self.ask_price_history_of_etf)) \div 2

midpoint_price_of_future(self) ==
    (Last(self.bid_price_history_of_future) + Last(self.ask_price_history_of_future)) \div 2

\* multiplier without the "+ 1"
multiplier_without_one(self) ==
    Abs(midpoint_price_of_etf(self) - midpoint_price_of_future(self))
        \div TICK_SIZE_IN_CENTS

multiplier(self) ==
    (Abs(midpoint_price_of_etf(self) - midpoint_price_of_future(self))
        \div TICK_SIZE_IN_CENTS) + 1

is_within_limit_after_sell(position) == position > - POSITION_LIMIT + LOT_SIZE

is_within_limit_after_buy(position) == position < POSITION_LIMIT - LOT_SIZE

\* variant 1, the if/elif chain that sizes a sell
sell_volume_ac_3(position, m) ==
    LET is_positive_position == (position >= 0)
    IN  IF is_positive_position /\ (position - LOT_SIZE * m >= -100)
        THEN LOT_SIZE * m
        ELSE IF is_positive_position /\ (position - LOT_SIZE * m <= -100)
        THEN 100 + position
        ELSE IF ~is_positive_position /\ (position - LOT_SIZE * m >= -100)
        THEN LOT_SIZE * m
        ELSE 100 + position

\* buy volume that is never clamped to the headroom
buy_volume_unclamped(position, m) == LOT_SIZE * m

\* variant 1, the assignment right before the insert, which overrides the chain
buy_volume_ac_3(position, m) ==
    IF LOT_SIZE * m + position <= 100 THEN LOT_SIZE * m ELSE 100 - position

sell_volume_ac_4(position, m) ==
    IF position - LOT_SIZE * m >= -100 THEN LOT_SIZE * m ELSE 100 + position

buy_volume_ac_4(position, m) ==
    IF position + LOT_SIZE * m <= 100 THEN LOT_SIZE * m ELSE 100 - position

\* cancel_ask that leaves the id in the slot until the exchange confirms
cancel_ask_keeps_slot(self) == send_cancel_order(self, self.ask_id)

cancel_ask(self) ==
    [send_cancel_order(self, self.ask_id) EXCEPT !.ask_id = 0]

cancel_bid(self) ==
    [send_cancel_order(self, self.bid_id) EXCEPT !.bid_id = 0]

\* place_ask that sends the order on the buy side
place_ask_on_buy_side(self, price, volume) ==
    LET id == self.order_ids
    IN  [send_insert_order([self EXCEPT !.order_ids = @ + 1, !.ask_id = id],
                           id, Side_BID, price, volume)
            EXCEPT !.asks = @ \cup {id}]

\* self.ask_id = next(self.order_ids); send_insert_order(...); self.asks.add(self.ask_id)
place_ask(self, price, volume) ==
    LET id == self.order_ids
    IN  [send_insert_order([self EXCEPT !.order_ids = @ + 1, !.ask_id = id],
                           id, Side_ASK, price, volume)
            EXCEPT !.asks = @ \cup {id}]

\* place_bid without self.bids.add(self.bid_id)
place_bid_untracked(self, price, volume) ==
    LET id == self.order_ids
    IN  send_insert_order([self EXCEPT !.order_ids = @ + 1, !.bid_id = id],
                          id, Side_BID, price, volume)

place_bid(self, price, volume) ==
    LET id == self.order_ids
    IN  [send_insert_order([self EXCEPT !.order_ids = @ + 1, !.bid_id = id],
                           id, Side_BID, price, volume)
            EXCEPT !.bids = @ \cup {id}]

\* variant 1: the "sell etf" block
sell_etf_ac_3(self, ask0) ==
    LET s1 == IF self.ask_id # 0 THEN cancel_ask(self) ELSE self
    IN  IF s1.ask_id = 0 /\ is_within_limit_after_sell(s1.position)
        THEN place_ask(s1, ask0, sell_volume_ac_3(s1.position, multiplier(s1)))
        ELSE s1

\* variant 1: the "buy etf" block
buy_etf_ac_3(self, bid0) ==
    LET s1 == IF self.bid_id # 0 THEN cancel_bid(self) ELSE self
    IN  IF s1.bid_id = 0 /\ is_within_limit_after_buy(s1.position)
        THEN place_bid(s1, bid0, buy_volume_ac_3(s1.position, multiplier(s1)))
        ELSE s1

on_order_book_update_message_ac_3(self, instrument, ask0, bid0) ==
    LET s0 == record_snapshot(self, instrument, ask0, bid0)
    IN  IF is_latest_info(s0)
        THEN LET s1 == IF midpoint_price_of_etf(s0) > midpoint_price_of_future(s0)
                          /\ instrument = Instrument_ETF
                       THEN sell_etf_ac_3(s0, ask0)
                       ELSE s0
                 s2 == IF midpoint_price_of_etf(s0) < midpoint_price_of_future(s0)
                          /\ instrument = Instrument_ETF
                       THEN buy_etf_ac_3(s1, bid0)
                       ELSE s1
             IN  s2
        ELSE s0

\* variant 2: the division midpoint_price_of_etf / midpoint_price_of_future in
\* in_long_etf_position / in_short_etf_position (one of the two is always
\* evaluated) raises ZeroDivisionError when the future midpoint is 0.
raises_ZeroDivisionError(self) == midpoint_price_of_future(self) = 0

\* variant 2: everything after the two early returns
quote_ac_4(self) ==
    LET have_an_active_ask == self.ask_id # 0
        have_an_active_bid == self.bid_id # 0
        should_sell == midpoint_price_of_etf(self) > midpoint_price_of_future(self)
        should_buy == midpoint_price_of_etf(self) < midpoint_price_of_future(self)
        s1 == IF have_an_active_ask THEN cancel_ask(self) ELSE self
        s2 == IF have_an_active_bid THEN cancel_bid(s1) ELSE s1
        s3 == IF should_sell /\ is_within_limit_after_sell(s2.position)
              THEN place_ask(s2, Last(s2.ask_price_history_of_etf),
                             sell_volume_ac_4(s2.position, multiplier(s2)))
              ELSE s2
        s4 == IF should_buy /\ is_within_limit_after_buy(s3.position)
              THEN place_bid(s3, Last(s3.bid_price_history_of_etf),
                             buy_volume_ac_4(s3.position, multiplier(s3)))
              ELSE s3
    IN  s4

\* variant 2 without the early return for a future update
on_order_book_update_message_ac_4_any_instrument(self, instrument, ask0, bid0) ==
    LET s0 == record_snapshot(self, instrument, ask0, bid0)
    IN  IF ~is_latest_info(s0) THEN s0
        ELSE IF raises_ZeroDivisionError(s0) THEN [s0 EXCEPT !.raised = TRUE]
        ELSE quote_ac_4(s0)

on_order_book_update_message_ac_4(self, instrument, ask0, bid0) ==
    LET s0 == record_snapshot(self, instrument, ask0, bid0)
    IN  IF instrument = Instrument_FUTURE THEN s0
        ELSE IF ~is_latest_info(s0) THEN s0
        ELSE IF raises_ZeroDivisionError(s0) THEN [s0 EXCEPT !.raised = TRUE]
        ELSE quote_ac_4(s0)

on_order_book_update_message(self, instrument, ask0, bid0) ==
    IF self.variant = 1
    THEN on_order_book_update_message_ac_3(self, instrument, ask0, bid0)
    ELSE on_order_book_update_message_ac_4(self, instrument, ask0, bid0)

\* ------------------------------------------------------------- the exchange
\* An order is Working from its InsertOrder until an OrderStatus with
\* remaining_volume = 0 (then Closed) or an Error (then Errored) is delivered
\* for its id.  Fills of a Working order never exceed its volume, and they
\* may still arrive after its cancel was sent.
Book(o, sent) ==
    LET ins == { i \in 1..Len(sent) : sent[i].cmd = "InsertOrder" }
        can == { sent[i].id : i \in { j \in 1..Len(sent) : sent[j].cmd = "CancelOrder" } }
        new == { sent[i].id : i \in ins }
    IN  [ id \in (DOMAIN o) \cup new |->
            IF id \in DOMAIN o
            THEN [o[id] EXCEPT !.cancelled = @ \/ id \in can]
            ELSE LET c == sent[CHOOSE i \in ins : sent[i].id = id]
                 IN  [side |-> c.side, volume |-> c.volume, filled |-> 0,
                      state |-> "Working", cancelled |-> FALSE] ]

IsWorking(id) == id \in DOMAIN orders /\ orders[id].state = "Working"

Working(side) == { id \in DOMAIN orders : IsWorking(id) /\ orders[id].side = side }

Close(o, id, state) ==
    IF id \in DOMAIN o /\ o[id].state = "Working"
    THEN [o EXCEPT ![id].state = state]
    ELSE o

IssuedIds == 1..(trader.order_ids - 1)
HedgeIds == IssuedIds \ DOMAIN orders

\* the inbound event handled last, as far as the properties below read it;
\* late: it is for an order id that is no longer (or never was) Working
Event(type, instrument, remaining_volume, late) ==
    [type |-> type, instrument |-> instrument,
     remaining_volume |-> remaining_volume, late |-> late]

\* a callback starts with nothing sent
Call(self) == [self EXCEPT !.sent = <<>>]

\* ------------------------------------------------------------------ actions
Init ==
    /\ \E variant \in {1, 2} : trader = AutoTrader(variant)
    /\ orders = [id \in {} |-> 0]
    /\ npartial = 0
    /\ ev = Event("init", "-", 0, FALSE)
    /\ twin = AutoTrader(2)
    /\ first = "-"

OrderBookUpdateWith(instrument, q) ==
    LET new == on_order_book_update_message(Call(trader), instrument, q[2], q[1])
    IN  /\ Len(IF instrument = Instrument_ETF
               THEN trader.bid_price_history_of_etf
               ELSE trader.bid_price_history_of_future) < MaxHist
        /\ new.order_ids <= MaxOrderId + 1
        /\ trader' = new
        /\ orders' = Book(orders, new.sent)
        /\ ev' = Event("OrderBookUpdate", instrument, 0, FALSE)
        /\ UNCHANGED <<npartial, twin, first>>

OrderBookUpdate ==
    \E instrument \in {Instrument_ETF, Instrument_FUTURE} :
    \E q \in (IF instrument = Instrument_ETF THEN ETFQuotes ELSE FutureQuotes) :
        OrderBookUpdateWith(instrument, q)

OrderFilledWith(id, volume) ==
    LET new == on_order_filled_message(Call(trader), id, volume)
    IN  /\ IsWorking(id) => orders[id].filled + volume <= orders[id].volume
        /\ new.order_ids <= MaxOrderId + 1
        /\ trader' = new
        /\ orders' = IF IsWorking(id)
                     THEN [orders EXCEPT ![id].filled = @ + volume]
                     ELSE orders
        /\ ev' = Event("OrderFilled", "-", 0, ~IsWorking(id))
        /\ UNCHANGED <<npartial, twin, first>>

OrderFilled ==
    \E id \in IssuedIds : \E volume \in FillVolumes : OrderFilledWith(id, volume)

\* fill_volume is what the order has traded so far; remaining_volume is what
\* is left of it, or 0 when the order is done (filled or cancelled)
OrderStatusWith(id, remaining_volume) ==
    LET fill_volume == orders[id].filled
        new == on_order_status_message(Call(trader), id, fill_volume, remaining_volume)
    IN  /\ remaining_volume > 0 => npartial < MaxPartialStatus
        /\ trader' = new
        /\ orders' = IF remaining_volume = 0 THEN Close(orders, id, "Closed") ELSE orders
        /\ npartial' = IF remaining_volume > 0 THEN npartial + 1 ELSE npartial
        /\ ev' = Event("OrderStatus", "-", remaining_volume, ~IsWorking(id))
        /\ UNCHANGED <<twin, first>>

RemainingVolumes(id) ==
    {0, IF IsWorking(id) THEN orders[id].volume - orders[id].filled ELSE LOT_SIZE}

OrderStatus ==
    \E id \in DOMAIN orders : \E remaining_volume \in RemainingVolumes(id) :
        OrderStatusWith(id, remaining_volume)

ErrorWith(id) ==
    LET new == on_error_message(Call(trader), id)
    IN  /\ trader' = new
        /\ orders' = Close(orders, id, "Errored")
        /\ ev' = Event("Error", "-", 0, ~IsWorking(id))
        /\ UNCHANGED <<npartial, twin, first>>

Error ==
    \E id \in {0} \cup IssuedIds : ErrorWith(id)

HedgeFilled ==
    \E id \in HedgeIds : \E volume \in FillVolumes :
        /\ trader' = on_hedge_filled_message(Call(trader), id, MIN_BID_NEAREST_TICK, volume)
        /\ ev' = Event("HedgeFilled", "-", 0, FALSE)
        /\ UNCHANGED <<orders, npartial, twin, first>>

TradeTicks ==
    \E instrument \in {Instrument_ETF, Instrument_FUTURE} :
        /\ trader' = on_trade_ticks_message(Call(trader), instrument)
        /\ ev' = Event("TradeTicks", instrument, 0, FALSE)
        /\ UNCHANGED <<orders, npartial, twin, first>>

Next ==
    \/ OrderBookUpdate
    \/ OrderFilled
    \/ OrderStatus
    \/ Error
    \/ HedgeFilled
    \/ TradeTicks

Spec == Init /\ [][Next]_vars

\* ------------------------------------------------ three rounds of quoting
\* The same program on a narrower tape that is one snapshot longer: an order
\* can be placed in the first round, cancelled in the second, and its slot
\* re-evaluated in the third while the cancel is still unconfirmed.
LongETFQuotes == { <<10000, 10200>>, <<8900, 9100>> }
LongFutureQuotes == { <<9900, 10100>> }

LongOrderBookUpdate ==
    \E instrument \in {Instrument_ETF, Instrument_FUTURE} :
    \E q \in (IF instrument = Instrument_ETF THEN LongETFQuotes ELSE LongFutureQuotes) :
        LET new == on_order_book_update_message(Call(trader), instrument, q[2], q[1])
        IN  /\ Len(IF instrument = Instrument_ETF
                   THEN trader.bid_price_history_of_etf
                   ELSE trader.bid_price_history_of_future) < MaxLongHist
            /\ new.order_ids <= MaxOrderId + 1
            /\ trader' = new
            /\ orders' = Book(orders, new.sent)
            /\ ev' = Event("OrderBookUpdate", instrument, 0, FALSE)
            /\ UNCHANGED <<npartial, twin, first>>

NextLong ==
    \/ LongOrderBookUpdate
    \/ OrderFilled
    \/ OrderStatus
    \/ Error
    \/ HedgeFilled
    \/ TradeTicks

SpecLong == Init /\ [][NextLong]_vars

\* ------------------------------------------------ ticks in a fixed order
\* Every tick brings one book update per instrument, and the instrument
\* named by first is delivered first in every tick of the run: with
\* first = ETF the updates go ETF, future, ETF, future, ...; with
\* first = FUTURE they go future, ETF, future, ETF, ...  All other events
\* arrive as under Spec.
InitTicks ==
    /\ \E variant \in {1, 2} : trader = AutoTrader(variant)
    /\ orders = [id \in {} |-> 0]
    /\ npartial = 0
    /\ ev = Event("init", "-", 0, FALSE)
    /\ twin = AutoTrader(2)
    /\ first \in {Instrument_ETF, Instrument_FUTURE}

TickOrderBookUpdate ==
    \E instrument \in {Instrument_ETF, Instrument_FUTURE} :
    \E q \in (IF instrument = Instrument_ETF THEN LongETFQuotes ELSE LongFutureQuotes) :
        LET new == on_order_book_update_message(Call(trader), instrument, q[2], q[1])
            delivered == IF instrument = Instrument_ETF
                         THEN Len(trader.bid_price_history_of_etf)
                         ELSE Len(trader.bid_price_history_of_future)
            delivered_of_other == IF instrument = Instrument_ETF
                                  THEN Len(trader.bid_price_history_of_future)
                                  ELSE Len(trader.bid_price_history_of_etf)
        IN  /\ delivered < MaxLongHist
            /\ IF instrument = first
               THEN delivered = delivered_of_other
               ELSE delivered + 1 = delivered_of_other
            /\ new.order_ids <= MaxOrderId + 1
            /\ trader' = new
            /\ orders' = Book(orders, new.sent)
            /\ ev' = Event("OrderBookUpdate", instrument, 0, FALSE)
            /\ UNCHANGED <<npartial, twin, first>>

NextTicks ==
    \/ TickOrderBookUpdate
    \/ OrderFilled
    \/ OrderStatus
    \/ Error
    \/ HedgeFilled
    \/ TradeTicks

SpecTicks == InitTicks /\ [][NextTicks]_vars

\* ------------------------------------------- the two variants in lock step
\* trader is a variant 1 object and twin a variant 2 object; every inbound
\* event is delivered to both with the same arguments.  The exchange books
\* the commands of trader.
InitPair ==
    /\ trader = AutoTrader(1)
    /\ twin = AutoTrader(2)
    /\ first = "-"
    /\ orders = [id \in {} |-> 0]
    /\ npartial = 0
    /\ ev = Event("init", "-", 0, FALSE)

PairOrderBookUpdate ==
    \E instrument \in {Instrument_ETF, Instrument_FUTURE} :
    \E q \in (IF instrument = Instrument_ETF THEN ETFQuotes ELSE FutureQuotes) :
        LET new == on_order_book_update_message(Call(trader), instrument, q[2], q[1])
            new2 == on_order_book_update_message(Call(twin), instrument, q[2], q[1])
        IN  /\ Len(IF instrument = Instrument_ETF
                   THEN trader.bid_price_history_of_etf
                   ELSE trader.bid_price_history_of_future) < MaxHist
            /\ new.order_ids <= MaxOrderId + 1
            /\ new2.order_ids <= MaxOrderId + 1
            /\ trader' = new
            /\ twin' = new2
            /\ orders' = Book(orders, new.sent)
            /\ ev' = Event("OrderBookUpdate", instrument, 0, FALSE)
            /\ UNCHANGED <<npartial, first>>

PairOrderFilled ==
    \E id \in IssuedIds : \E volume \in FillVolumes :
        LET new == on_order_filled_message(Call(trader), id, volume)
            new2 == on_order_filled_message(Call(twin), id, volume)
        IN  /\ IsWorking(id) => orders[id].filled + volume <= orders[id].volume
            /\ new.order_ids <= MaxOrderId + 1
            /\ new2.order_ids <= MaxOrderId + 1
            /\ trader' = new
            /\ twin' = new2
            /\ orders' = IF IsWorking(id)
                         THEN [orders EXCEPT ![id].filled = @ + volume]
                         ELSE orders
            /\ ev' = Event("OrderFilled", "-", 0, ~IsWorking(id))
            /\ UNCHANGED <<npartial, first>>

PairOrderStatus ==
    \E id \in DOMAIN orders : \E remaining_volume \in RemainingVolumes(id) :
        LET fill_volume == orders[id].filled
        IN  /\ remaining_volume > 0 => npartial < MaxPartialStatus
            /\ trader' = on_order_status_message(Call(trader), id, fill_volume, remaining_volume)
            /\ twin' = on_order_status_message(Call(twin), id, fill_volume, remaining_volume)
            /\ orders' = IF remaining_volume = 0 THEN Close(orders, id, "Closed") ELSE orders
            /\ npartial' = IF remaining_volume > 0 THEN npartial + 1 ELSE npartial
            /\ ev' = Event("OrderStatus", "-", remaining_volume, ~IsWorking(id))
            /\ UNCHANGED first

PairError ==
    \E id \in {0} \cup IssuedIds :
        /\ trader' = on_error_message(Call(trader), id)
        /\ twin' = on_error_message(Call(twin), id)
        /\ orders' = Close(orders, id, "Errored")
        /\ ev' = Event("Error", "-", 0, ~IsWorking(id))
        /\ UNCHANGED <<npartial, first>>

PairHedgeFilled ==
    \E id \in HedgeIds : \E volume \in FillVolumes :
        /\ trader' = on_hedge_filled_message(Call(trader), id, MIN_BID_NEAREST_TICK, volume)
        /\ twin' = on_hedge_filled_message(Call(twin), id, MIN_BID_NEAREST_TICK, volume)
        /\ ev' = Event("HedgeFilled", "-", 0, FALSE)
        /\ UNCHANGED <<orders, npartial, first>>

PairTradeTicks ==
    \E instrument \in {Instrument_ETF, Instrument_FUTURE} :
        /\ trader' = on_trade_ticks_message(Call(trader), instrument)
        /\ twin' = on_trade_ticks_message(Call(twin), instrument)
        /\ ev' = Event("TradeTicks", instrument, 0, FALSE)
        /\ UNCHANGED <<orders, npartial, first>>

NextPair ==
    \/ PairOrderBookUpdate
    \/ PairOrderFilled
    \/ PairOrderStatus
    \/ PairError
    \/ PairHedgeFilled
    \/ PairTradeTicks

SpecPair == InitPair /\ [][NextPair]_vars

\* ------------------------------------------------- what the properties read
Sent(cmd) == { trader.sent[i] : i \in { j \in 1..Len(trader.sent) : trader.sent[j].cmd = cmd } }

\* the last event was an ETF book update that found the histories synchronized
\* and ran to its end
QuotingInvocation ==
    /\ ev.type = "OrderBookUpdate"
    /\ ev.instrument = Instrument_ETF
    /\ Len(trader.bid_price_history_of_etf) = Len(trader.bid_price_history_of_future)
    /\ ~(trader.variant = 2 /\ raises_ZeroDivisionError(trader))

MidETF ==
    (Last(trader.bid_price_history_of_etf) + Last(trader.ask_price_history_of_etf)) \div 2

MidFuture ==
    (Last(trader.bid_price_history_of_future) + Last(trader.ask_price_history_of_future)) \div 2

Gap == MidETF - MidFuture

Multiplier == (Abs(Gap) \div TICK_SIZE_IN_CENTS) + 1

TypeOK ==
    /\ trader.variant \in {1, 2}
    /\ trader.order_ids \in 1..(MaxOrderId + 1)
    /\ trader.bid_id \in 0..MaxOrderId
    /\ trader.ask_id \in 0..MaxOrderId
    /\ \A id \in DOMAIN orders : IsWorking(id) <=> (id \in trader.bids \cup trader.asks)

\* ------------------------------------------------------------------- claims

\* C1: in every reachable state the realized position stays within the
\* position limit: -POSITION_LIMIT <= position <= POSITION_LIMIT.
C1_PositionWithinLimit ==
    /\ - POSITION_LIMIT <= trader.position
    /\ trader.position <= POSITION_LIMIT

\* C2: every InsertOrder is sized so that its full execution from the position
\* at the moment of insertion stays inside the limit: a Buy of volume v at
\* position p has p + v <= POSITION_LIMIT, a Sell has p - v >= -POSITION_LIMIT.
\* (A book update leaves position as it was, so the position of the state
\* that holds the InsertOrder is the position it was sized from.)
C2_InsertStaysInsideLimit ==
    \A c \in Sent("InsertOrder") :
        /\ c.side = Side_BID => trader.position + c.volume <= POSITION_LIMIT
        /\ c.side = Side_ASK => trader.position - c.volume >= - POSITION_LIMIT

\* a Buy placed from a nonzero position that takes all the headroom left
C2_Witness ==
    \E c \in Sent("InsertOrder") :
        /\ c.side = Side_BID
        /\ trader.position > 0
        /\ trader.position + c.volume = POSITION_LIMIT

\* C3: at every reachable state at most one order per side is Working (from
\* its InsertOrder until a status with remaining_volume = 0 or an error).
C3_OneWorkingOrderPerSide ==
    /\ Cardinality(Working(Side_BID)) <= 1
    /\ Cardinality(Working(Side_ASK)) <= 1

C4_Hedged(side, price, volume) ==
    /\ Len(trader'.sent) = 1
    /\ trader'.sent[1].cmd = "HedgeOrder"
    /\ trader'.sent[1].side = side
    /\ trader'.sent[1].price = price
    /\ trader'.sent[1].volume = volume

C4_FillLaw(id, volume) ==
    /\ id \in trader.bids =>
          /\ trader'.position = trader.position + volume
          /\ C4_Hedged(Side_ASK, MIN_BID_NEAREST_TICK, volume)
    /\ id \in trader.asks =>
          /\ trader'.position = trader.position - volume
          /\ C4_Hedged(Side_BID, MAX_ASK_NEAREST_TICK, volume)
    /\ id \notin trader.bids \cup trader.asks =>
          /\ trader'.position = trader.position
          /\ trader'.sent = <<>>

\* C4: an OrderFilled of volume v for an id in the bid-set raises position by v
\* and emits exactly one HedgeOrder, a Sell of v at MIN_BID_NEAREST_TICK; for
\* an id in the ask-set it lowers position by v and emits exactly one
\* HedgeOrder, a Buy of v at MAX_ASK_NEAREST_TICK; for an id in neither set it
\* emits nothing and leaves position unchanged.
C4_HedgeLaw ==
    [][ev'.type = "OrderFilled" =>
          \A id \in IssuedIds : \A volume \in FillVolumes :
              OrderFilledWith(id, volume) => C4_FillLaw(id, volume)]_vars

\* a fill of a tracked ask has just been hedged with a Buy at the highest price
C4_Witness ==
    /\ ev.type = "OrderFilled"
    /\ ~ev.late
    /\ trader.position < 0
    /\ \E c \in Sent("HedgeOrder") : c.side = Side_BID /\ c.price = MAX_ASK_NEAREST_TICK

\* C5: for every quoting invocation that places an order, the multiplier is
\* floor(|gap| / TICK) + 1 >= 1, with gap the difference of the floored
\* midpoints, and the inserted volume is
\* min(LOT_SIZE * multiplier, max(0, LIMIT - position)) for a Buy and
\* min(LOT_SIZE * multiplier, max(0, LIMIT + position)) for a Sell.
C5_SizingLaw ==
    \A c \in Sent("InsertOrder") :
        /\ Multiplier >= 1
        /\ c.side = Side_BID =>
              c.volume = Min(LOT_SIZE * Multiplier, Max(0, POSITION_LIMIT - trader.position))
        /\ c.side = Side_ASK =>
              c.volume = Min(LOT_SIZE * Multiplier, Max(0, POSITION_LIMIT + trader.position))

\* a Sell placed from a short position, shrunk below LOT_SIZE * multiplier
C5_Witness ==
    \E c \in Sent("InsertOrder") :
        /\ c.side = Side_ASK
        /\ trader.position < 0
        /\ c.volume = POSITION_LIMIT + trader.position
        /\ c.volume < LOT_SIZE * Multiplier

\* C6: a quoting invocation at position = 95 with the ETF midpoint below the
\* future midpoint emits a Buy InsertOrder of volume 5.
C6_BuyAt95IsClampedTo5 ==
    (QuotingInvocation /\ trader.position = 95 /\ MidETF < MidFuture)
        => \E c \in Sent("InsertOrder") : c.side = Side_BID /\ c.volume = 5

\* C7: a quoting invocation with a direction and at least one lot of headroom
\* on that side (LIMIT - position >= LOT_SIZE for a Buy, LIMIT + position >=
\* LOT_SIZE for a Sell) places an order, of LOT_SIZE * multiplier or, when that
\* would breach the limit, of the headroom.
C7_OrderPlacedWhileOneLotOfHeadroom ==
    QuotingInvocation =>
        /\ (MidETF < MidFuture /\ POSITION_LIMIT - trader.position >= LOT_SIZE) =>
              \E c \in Sent("InsertOrder") :
                  /\ c.side = Side_BID
                  /\ c.volume = Min(LOT_SIZE * Multiplier, POSITION_LIMIT - trader.position)
        /\ (MidETF > MidFuture /\ POSITION_LIMIT + trader.position >= LOT_SIZE) =>
              \E c \in Sent("InsertOrder") :
                  /\ c.side = Side_ASK
                  /\ c.volume = Min(LOT_SIZE * Multiplier, POSITION_LIMIT + trader.position)

\* C8: an OrderStatus with remaining_volume = 0 for an id that already got
\* one changes no field of the trader and emits no command.
C8_SecondTerminalStatusIsNoOp ==
    [][ev'.type = "OrderStatus" =>
          \A id \in DOMAIN orders :
              (orders[id].state = "Closed" /\ OrderStatusWith(id, 0))
                  => trader' = Call(trader)]_vars

\* variant 2, every order closed by a status, one of them after a fill, and
\* the last event a terminal status for an order already closed
C8_Witness ==
    /\ ev.type = "OrderStatus"
    /\ ev.remaining_volume = 0
    /\ ev.late
    /\ trader.variant = 2
    /\ DOMAIN orders # {}
    /\ \A id \in DOMAIN orders : orders[id].state = "Closed"
    /\ \E id \in DOMAIN orders : orders[id].filled > 0

C9_StatusLaw(id, remaining_volume) ==
    /\ trader'.position = trader.position
    /\ (remaining_volume > 0 /\ IsWorking(id)) =>
          /\ trader'.bid_id = trader.bid_id
          /\ trader'.ask_id = trader.ask_id
          /\ trader'.bids = trader.bids
          /\ trader'.asks = trader.asks

\* C9: an OrderStatus with remaining_volume > 0 for a resting order leaves the
\* slot ids and both side-sets unchanged, and no OrderStatus changes position.
C9_StatusLeavesPosition ==
    [][ev'.type = "OrderStatus" =>
          \A id \in DOMAIN orders : \A remaining_volume \in RemainingVolumes(id) :
              OrderStatusWith(id, remaining_volume) => C9_StatusLaw(id, remaining_volume)]_vars

\* a partial status has just been handled for a resting order after a fill
C9_Witness ==
    /\ ev.type = "OrderStatus"
    /\ ev.remaining_volume > 0
    /\ ~ev.late
    /\ trader.position # 0
    /\ (trader.bid_id # 0 \/ trader.ask_id # 0)

C10_ErrorLaw(id) ==
    IF id # 0 /\ id \in trader.bids \cup trader.asks
    THEN /\ trader' = [Call(trader) EXCEPT !.bid_id = IF @ = id THEN 0 ELSE @,
                                           !.ask_id = IF @ = id THEN 0 ELSE @,
                                           !.bids = @ \ {id},
                                           !.asks = @ \ {id}]
         /\ trader' = on_order_status_message(Call(trader), id, 0, 0)
    ELSE trader' = Call(trader)

\* C10: Error(id) for a nonzero id in the bid-set or ask-set clears the slot
\* that holds id and removes id from both side-sets, exactly as
\* OrderStatus(id, 0, 0, 0) does; Error with id 0 or an id in neither set
\* changes no state and emits no command; no Error makes the handler raise.
C10_ErrorIsTerminalStatus ==
    [][ev'.type = "Error" =>
          \A id \in {0} \cup IssuedIds : ErrorWith(id) => C10_ErrorLaw(id)]_vars

\* the only order was resting in its slot when an Error for it arrived
C10_Witness ==
    /\ ev.type = "Error"
    /\ ~ev.late
    /\ DOMAIN orders = {1}
    /\ orders[1].state = "Errored"
    /\ trader.bids \cup trader.asks = {}
    /\ trader.bid_id = 0 /\ trader.ask_id = 0

\* the histories grew by the handled snapshot and nothing else happened
C11_OnlyAppended ==
    /\ trader'.sent = <<>>
    /\ trader'.bid_id = trader.bid_id
    /\ trader'.ask_id = trader.ask_id
    /\ trader'.bids = trader.bids
    /\ trader'.asks = trader.asks
    /\ trader'.position = trader.position
    /\ trader'.order_ids = trader.order_ids
    /\ orders' = orders
    /\ Len(trader'.bid_price_history_of_etf) + Len(trader'.bid_price_history_of_future)
          = Len(trader.bid_price_history_of_etf) + Len(trader.bid_price_history_of_future) + 1

C11_Synchronized ==
    /\ ev'.type = "OrderBookUpdate"
    /\ ev'.instrument = Instrument_ETF
    /\ Len(trader'.bid_price_history_of_etf) = Len(trader'.bid_price_history_of_future)

\* C11: a CancelOrder or an InsertOrder is emitted only while handling an ETF
\* book update after which the two price histories have equal length; a
\* future book update, and an ETF book update that leaves the lengths
\* unequal, only append to the price history: no command, no change of a
\* slot id, of a side-set or of the position.
C11_QuotesOnlyWhenSynchronized ==
    [][/\ (\E i \in 1..Len(trader'.sent) :
              trader'.sent[i].cmd \in {"CancelOrder", "InsertOrder"})
            => C11_Synchronized
       /\ (ev'.type = "OrderBookUpdate" /\ ~C11_Synchronized) => C11_OnlyAppended]_vars

\* a future update has just arrived while a quote rests and the histories
\* have equal length: nothing was sent and the quote still rests
C11_Witness ==
    /\ ev.type = "OrderBookUpdate"
    /\ ev.instrument = Instrument_FUTURE
    /\ Len(trader.bid_price_history_of_etf) = Len(trader.bid_price_history_of_future)
    /\ Len(trader.bid_price_history_of_etf) = MaxHist
    /\ MidETF # MidFuture
    /\ trader.sent = <<>>
    /\ (trader.bid_id # 0 \/ trader.ask_id # 0)

C12_Inserts == { i \in 1..Len(trader'.sent) : trader'.sent[i].cmd = "InsertOrder" }

\* q is the ETF snapshot <<best bid, best ask>> being handled
C12_DirectionLaw(q) ==
    LET mid_etf == (q[1] + q[2]) \div 2
        mid_future == (Last(trader.bid_price_history_of_future)
                         + Last(trader.ask_price_history_of_future)) \div 2
        c(i) == trader'.sent[i]
    IN  /\ Cardinality(C12_Inserts) <= 1
        /\ mid_etf > mid_future =>
              \A i \in C12_Inserts : c(i).side = Side_ASK /\ c(i).price = q[2]
        /\ mid_etf < mid_future =>
              \A i \in C12_Inserts : c(i).side = Side_BID /\ c(i).price = q[1]
        /\ mid_etf = mid_future => C12_Inserts = {}
        /\ (trader.position = 0 /\ mid_etf = 10100 /\ mid_future = 10000) =>
              \E i \in C12_Inserts : c(i).side = Side_ASK /\ c(i).volume = 20

\* C12: the direction is exclusive.  An ETF book update that finds the
\* histories synchronized emits at most one InsertOrder: with the ETF
\* midpoint above the future midpoint a Sell priced at the best ask of the
\* handled update and no Buy, with it below a Buy priced at the best bid and
\* no Sell, with equal midpoints none.  With position 0, ETF midpoint 10100
\* and future midpoint 10000 it emits exactly one Sell of volume 20.
C12_DirectionIsExclusive ==
    [][C11_Synchronized =>
          \A q \in ETFQuotes :
              OrderBookUpdateWith(Instrument_ETF, q) => C12_DirectionLaw(q)]_vars

\* flat, ETF midpoint 10100 against future midpoint 10000: one Sell of 20 at
\* the best ask 10200
C12_Witness ==
    /\ QuotingInvocation
    /\ trader.position = 0
    /\ MidETF = 10100 /\ MidFuture = 10000
    /\ \E c \in Sent("InsertOrder") :
          c.side = Side_ASK /\ c.volume = 20 /\ c.price = 10200
    /\ Cardinality(Sent("InsertOrder")) = 1

C13_Cancelled(slot) ==
    slot # 0 =>
        \E i \in 1..Len(trader'.sent) :
            /\ trader'.sent[i].cmd = "CancelOrder"
            /\ trader'.sent[i].id = slot
            /\ \A j \in 1..Len(trader'.sent) :
                   trader'.sent[j].cmd = "InsertOrder" => i < j

\* C13: in both variants every ETF book update that finds the histories
\* synchronized cancels every resting quote before it re-evaluates: for each
\* side whose slot id is nonzero a CancelOrder for that id is emitted, ahead
\* of any InsertOrder of the same invocation, and the slot no longer holds
\* that id, whatever the direction.
C13_CancelsEveryRestingQuote ==
    [][C11_Synchronized =>
          /\ C13_Cancelled(trader.bid_id)
          /\ C13_Cancelled(trader.ask_id)
          /\ trader.bid_id # 0 => trader'.bid_id # trader.bid_id
          /\ trader.ask_id # 0 => trader'.ask_id # trader.ask_id]_vars

\* a command without its price
C14_Command(c) == [cmd |-> c.cmd, id |-> c.id, side |-> c.side, volume |-> c.volume]

\* C14: fed the same events, the two variants emit the same commands (same
\* ids, sides and volumes, in the same order) and hold the same position,
\* slot ids and side-sets after every event; they differ only in where the
\* InsertOrder price is read from and in position_orders.
C14_VariantsAgree ==
    /\ Len(trader.sent) = Len(twin.sent)
    /\ \A i \in 1..Len(trader.sent) :
          i <= Len(twin.sent) => C14_Command(trader.sent[i]) = C14_Command(twin.sent[i])
    /\ trader.position = twin.position
    /\ trader.bid_id = twin.bid_id
    /\ trader.ask_id = twin.ask_id
    /\ trader.bids = twin.bids
    /\ trader.asks = twin.asks

\* signed unfilled volume of the Working orders with ids 1..n: buys count
\* positive, sells negative
RECURSIVE C15_WorkingExposure(_)
C15_WorkingExposure(n) ==
    IF n = 0 THEN 0
    ELSE C15_WorkingExposure(n - 1)
           + (IF ~IsWorking(n) THEN 0
              ELSE IF orders[n].side = Side_BID
              THEN orders[n].volume - orders[n].filled
              ELSE - (orders[n].volume - orders[n].filled))

\* C15: in variant 2, position_orders (the committed exposure) always equals
\* the signed sum of the unfilled volume of the working orders, buys
\* positive and sells negative: it moves by the order's volume when an order
\* is placed and shrinks as fills arrive.
C15_ExposureMatchesWorkingOrders ==
    trader.variant = 2 =>
        trader.position_orders = C15_WorkingExposure(trader.order_ids - 1)

\* C16: the position ledger is mutated only by OrderFilled: position and, in
\* variant 2, position_orders are left unchanged by every OrderStatus,
\* Error, HedgeFilled, TradeTicks and OrderBookUpdate event.
C16_LedgerMovesOnlyOnFill ==
    [][ev'.type \in {"OrderStatus", "Error", "HedgeFilled", "TradeTicks", "OrderBookUpdate"} =>
          /\ trader'.position = trader.position
          /\ trader'.position_orders = trader.position_orders]_vars

\* C17: an OrderStatus, with any fill and remaining volume, for an order id
\* held in neither side-set is a silent no-op: slot ids, side-sets, position
\* and position_orders are unchanged and no command is emitted.
C17_StatusForUnknownIdIsNoOp ==
    [][ev'.type = "OrderStatus" =>
          \A id \in DOMAIN orders : \A remaining_volume \in RemainingVolumes(id) :
              (OrderStatusWith(id, remaining_volume) /\ id \notin trader.bids \cup trader.asks)
                  => trader' = Call(trader)]_vars

\* a status with remaining volume has just arrived for an order that is
\* done and had traded, while another quote rests and the position is open
C17_Witness ==
    /\ ev.type = "OrderStatus"
    /\ ev.late
    /\ ev.remaining_volume > 0
    /\ trader.position # 0
    /\ (trader.bid_id # 0 \/ trader.ask_id # 0)
    /\ \E id \in DOMAIN orders : ~IsWorking(id)
    /\ \A id \in DOMAIN orders : ~IsWorking(id) => orders[id].filled > 0

C18_Cancels == { i \in 1..Len(trader'.sent) : trader'.sent[i].cmd = "CancelOrder" }

\* C18: a CancelOrder is emitted at most once per order id, only for an id
\* previously sent in an InsertOrder and never for id 0; an order whose slot
\* was zeroed when its cancel was sent is never cancelled again while the
\* confirmation is pending.
C18_CancelledAtMostOnce ==
    [][\A i \in C18_Cancels :
          LET id == trader'.sent[i].id
          IN  /\ id # 0
              /\ id \in DOMAIN orders
              /\ ~orders[id].cancelled
              /\ \A j \in C18_Cancels : trader'.sent[j].id = id => j = i]_vars

\* a quoting invocation has just cancelled the resting order while an older
\* order, cancelled by an earlier invocation, is still unconfirmed: the
\* older one was not cancelled again
C18_Witness ==
    /\ QuotingInvocation
    /\ Sent("CancelOrder") # {}
    /\ \E id \in DOMAIN orders :
          /\ orders[id].cancelled
          /\ IsWorking(id)
          /\ id \notin { c.id : c \in Sent("CancelOrder") }

\* C19: a nonzero bid slot id is a member of the bid-set and a nonzero ask
\* slot id a member of the ask-set; the two sets are disjoint and neither
\* contains 0; every member is the id of an order sent in an InsertOrder on
\* that side, never the id of a hedge order.
C19_SlotsAndSetsConsistent ==
    /\ trader.bid_id # 0 => trader.bid_id \in trader.bids
    /\ trader.ask_id # 0 => trader.ask_id \in trader.asks
    /\ trader.bids \cap trader.asks = {}
    /\ 0 \notin trader.bids \cup trader.asks
    /\ (trader.bids \cup trader.asks) \cap HedgeIds = {}
    /\ \A id \in trader.bids : id \in DOMAIN orders /\ orders[id].side = Side_BID
    /\ \A id \in trader.asks : id \in DOMAIN orders /\ orders[id].side = Side_ASK

\* both slots hold a resting order and a hedge id has been drawn as well
C19_Witness ==
    /\ trader.bid_id # 0
    /\ trader.ask_id # 0
    /\ HedgeIds # {}
    /\ \E id \in HedgeIds : id < trader.bid_id \/ id < trader.ask_id

\* the cancel of order id was sent (its slot was zeroed then) and neither a
\* terminal status nor an error has arrived for it
C20_CancelPending(id) ==
    /\ id \in DOMAIN orders
    /\ orders[id].cancelled
    /\ orders[id].state = "Working"

C20_FillLaw(id, volume) ==
    IF C20_CancelPending(id)
    THEN /\ trader.bid_id # id /\ trader.ask_id # id
         /\ trader'.position = IF orders[id].side = Side_BID
                                THEN trader.position + volume
                                ELSE trader.position - volume
         /\ Len(trader'.sent) = 1
         /\ trader'.sent[1].cmd = "HedgeOrder"
         /\ trader'.sent[1].volume = volume
         /\ trader'.sent[1].side = IF orders[id].side = Side_BID THEN Side_ASK ELSE Side_BID
    ELSE (id \in DOMAIN orders /\ orders[id].state # "Working") => trader' = Call(trader)

\* C20: a fill is not dropped while a cancel is pending.  If the quoting loop
\* zeroed an order's slot when it sent the cancel and no terminal status or
\* error has arrived for it, an OrderFilled of volume v for that id still
\* moves the position by v in the order's direction and emits exactly one
\* hedge of volume v; only after the terminal status or error is a fill for
\* that id ignored.
C20_FillAppliedWhileCancelPending ==
    [][ev'.type = "OrderFilled" =>
          \A id \in IssuedIds : \A volume \in FillVolumes :
              OrderFilledWith(id, volume) => C20_FillLaw(id, volume)]_vars

\* the only order that has traded is one whose cancel is still unconfirmed,
\* and its fill has just been hedged
C20_Witness ==
    /\ ev.type = "OrderFilled"
    /\ ~ev.late
    /\ Sent("HedgeOrder") # {}
    /\ \E id \in DOMAIN orders :
          /\ C20_CancelPending(id)
          /\ orders[id].filled > 0
          /\ trader.bid_id # id /\ trader.ask_id # id
          /\ \A other \in DOMAIN orders \ {id} : orders[other].filled = 0

C21_HandlingETFUpdate == ev.type = "OrderBookUpdate" /\ ev.instrument = Instrument_ETF

\* C21: quoting depends on the delivery order.  When the book updates of a
\* run strictly alternate starting with the ETF, the history lengths are
\* never equal while an ETF update is handled, and no InsertOrder or
\* CancelOrder is ever emitted; when the future update precedes the ETF
\* update in each tick, every ETF update finds the histories synchronized
\* and is a quoting invocation.
C21_QuotingDependsOnDeliveryOrder ==
    /\ first = Instrument_ETF =>
          /\ C21_HandlingETFUpdate => ~is_latest_info(trader)
          /\ Sent("InsertOrder") \cup Sent("CancelOrder") = {}
          /\ DOMAIN orders = {}
          /\ trader.bids \cup trader.asks = {}
          /\ trader.bid_id = 0 /\ trader.ask_id = 0
          /\ trader.position = 0
    /\ first = Instrument_FUTURE =>
          (C21_HandlingETFUpdate => is_latest_info(trader))

\* the ETF comes first in every tick; the last ETF update of the run has
\* just been handled with the ETF midpoint away from the known future
\* midpoint, and no order has been placed
C21_Witness ==
    /\ first = Instrument_ETF
    /\ C21_HandlingETFUpdate
    /\ Len(trader.bid_price_history_of_etf) = MaxLongHist
    /\ Len(trader.bid_price_history_of_future) = MaxLongHist - 1
    /\ MidETF # MidFuture
    /\ trader.order_ids = 1

====
